---- MODULE Spec2Model ----
(***************************************************************************)
(* A model of the Windows mini shell of src/minishell_windows_full.cpp:    *)
(* the parser, the run loop, builtin dispatch, the single-command path,    *)
(* the multi-stage pipeline builder and the background job registry.       *)
(* The shell is one thread; the child processes it starts exit on their    *)
(* own, concurrently with every step of the shell.                         *)
(***************************************************************************)
EXTENDS Integers, Sequences, FiniteSets, TLC

(***************************************************************************)
(* Bounds of the model.                                                    *)
(***************************************************************************)
\* processes the system lets one session create: CreateProcessA fails beyond it
MaxProcs == 2
\* pipes the shell can hold open at once: CreatePipe fails beyond it
MaxPipes == 2
\* files the shell can hold open at once: CreateFileA fails beyond it
MaxFiles == 1

(***************************************************************************)
(* Constants of the program and of the Windows API it calls.               *)
(***************************************************************************)
\* GetExitCodeProcess reports this code for a process that has not exited
STILL_ACTIVE == 259
\* the null handle tested by `if (job_pair.second.hProcess)`
NULL == 0
\* exit code passed to TerminateProcess by builtin_kill
KILL_EXIT_CODE == 1

\* exit codes a child process may exit with on its own
ExitCodes == {0, STILL_ACTIVE}

(***************************************************************************)
(* Parsing.  A line is the sequence of its whitespace-separated tokens,    *)
(* which is what `iss >> token` yields.                                    *)
(***************************************************************************)
Command ==
    [args |-> <<>>, input_file |-> "", output_file |-> "",
     append_output |-> FALSE, background |-> FALSE]

\* (a parser that pushes the current stage whatever it holds)
push_any(commands, cur) == Append(commands, cur)

\* `if (!current_cmd.args.empty()) commands.push_back(current_cmd)`
push_nonempty(commands, cur) ==
    IF cur.args # <<>> THEN Append(commands, cur) ELSE commands

\* (a parser that serves a pending output file before a pending input file)
output_first(expect_in, expect_out) == expect_in /\ ~expect_out

\* `else if (expect_input_file)` comes before `else if (expect_output_file)`
input_first(expect_in, expect_out) == expect_in

RECURSIVE parse_loop(_, _, _, _, _)
parse_loop(toks, commands, cur, expect_in, expect_out) ==
    IF toks = <<>>
    THEN push_nonempty(commands, cur)
    ELSE LET token == Head(toks)
             rest  == Tail(toks)
         IN  IF token = "|"
             THEN parse_loop(rest, push_nonempty(commands, cur),
                             IF cur.args # <<>> THEN Command ELSE cur,
                             expect_in, expect_out)
             ELSE IF token = "<"
             THEN parse_loop(rest, commands, cur, TRUE, expect_out)
             ELSE IF token = ">"
             THEN parse_loop(rest, commands,
                             [cur EXCEPT !.append_output = FALSE],
                             expect_in, TRUE)
             ELSE IF token = ">>"
             THEN parse_loop(rest, commands,
                             [cur EXCEPT !.append_output = TRUE],
                             expect_in, TRUE)
             ELSE IF token = "&"
             THEN parse_loop(rest, commands,
                             [cur EXCEPT !.background = TRUE],
                             expect_in, expect_out)
             ELSE IF input_first(expect_in, expect_out)
             THEN parse_loop(rest, commands,
                             [cur EXCEPT !.input_file = token],
                             FALSE, expect_out)
             ELSE IF expect_out
             THEN parse_loop(rest, commands,
                             [cur EXCEPT !.output_file = token],
                             expect_in, FALSE)
             ELSE parse_loop(rest, commands,
                             [cur EXCEPT !.args = Append(@, token)],
                             expect_in, expect_out)

parse_input(input) == parse_loop(input, <<>>, Command, FALSE, FALSE)

\* std::stoi on the tokens the model uses: the leading decimal digits, or a throw
stoi_ok(s) == s \in {"0", "1", "2", "3", "4", "2x"}

stoi(s) ==
    CASE s = "0" -> 0
      [] s = "1" -> 1
      [] s = "2" -> 2
      [] s = "3" -> 3
      [] s = "4" -> 4
      [] s = "2x" -> 2
      [] OTHER -> 0

RECURSIVE build_command_line(_)
build_command_line(args) ==
    IF args = <<>> THEN ""
    ELSE IF Len(args) = 1 THEN args[1]
    ELSE build_command_line(SubSeq(args, 1, Len(args) - 1)) \o " " \o args[Len(args)]

\* the display text of a background pipeline: the stages joined with " | "
RECURSIVE pipeline_text(_)
pipeline_text(commands) ==
    IF commands = <<>> THEN ""
    ELSE IF Len(commands) = 1 THEN build_command_line(commands[1].args)
    ELSE pipeline_text(SubSeq(commands, 1, Len(commands) - 1)) \o " | "
             \o build_command_line(commands[Len(commands)].args)

(***************************************************************************)
(* The lines typed at the prompt.                                          *)
(***************************************************************************)
IdTokens == {"1", "2", "x"}

Lines ==
    { <<>>, <<"|", ">">>,
      <<"a">>, <<"a", "&">>,
      <<"a", "<", "in">>, <<"a", ">", "out", "&">>,
      <<"a", "|", "b">>, <<"a", "|", "b", "&">>,
      <<"a", "|", "b", "|", "c">>,
      <<"a", "&", "|", "b">>, <<"cd", "|", "a">>,
      <<"jobs">>, <<"cd">>, <<"cls">>,
      <<"exit">>, <<"exit", "x">>, <<"fg">>, <<"kill">> }
    \cup { <<"fg", t>> : t \in IdTokens }
    \cup { <<"kill", t>> : t \in IdTokens }

\* the lines with redirections, typed in the sessions of SpecFiles
\* the longest typed line, in tokens, of the sessions that exercise the parser
MaxTokens == 4

Operators == {"|", "<", ">", ">>", "&"}

Words == {"a", "b"}

\* every line of at most MaxTokens tokens, and the line `a | b | c`
TokenLines ==
    UNION { [1..n -> Operators \cup Words] : n \in 0..MaxTokens }
        \cup { <<"a", "|", "b", "|", "c">> }

\* lines that end in each way a line can end: a parse no-op, a file that
\* cannot be opened, a launch that fails, a wait, a job that is registered,
\* an unknown job id, an invalid argument, and `exit`
LiveLines ==
    { <<"|", ">">>, <<"a">>, <<"a", "&">>, <<"a", "<", "in">>,
      <<"a", "|", "b">>, <<"a", "|", "b", "&">>,
      <<"fg", "1">>, <<"fg", "x">>, <<"kill", "2">>, <<"kill">>,
      <<"exit", "x">>, <<"exit">> }

FileLines ==
    { <<"a", "<", "in">>, <<"a", ">", "out">>,
      <<"a", "<", "in", "|", "b">>, <<"a", "|", "b", ">", "out">>,
      <<"a", "|", "b", "<", "in">>, <<"a", ">", "out", "|", "b">>,
      <<"a", "<", "in", "|", "b", ">>", "out", "&">>,
      <<"a", "|", "b", "<", "in", ">", "out", "|", "c">> }

(***************************************************************************)
(* State.                                                                  *)
(*   pc          where the shell's single thread is:                       *)
(*               "loop"    top of the while loop of run()                  *)
(*               "prompt"  blocked in getline                              *)
(*               "parse"   line read, entering parse_input                 *)
(*               "exec"    line parsed, entering execute_pipeline          *)
(*               "pipes"   in the CreatePipe loop                          *)
(*               "launch"  in the CreateProcess loop                       *)
(*               "close"   about to close the parent's pipe handles        *)
(*               "decide"  at `if (background)` of execute_pipeline        *)
(*               "cmdwait" blocked in execute_command's WaitForSingleObject*)
(*               "fgwait"  blocked in builtin_fg's WaitForSingleObject     *)
(*               "exited"  the shell process has ended                     *)
(*   running, jobs, job_counter     the members of WindowsShell            *)
(*   commands .. hProcess           the locals of the function running     *)
(*   procs       the process handles the shell holds open, each with the   *)
(*               state of its process                                      *)
(*   stages      history: the stage index each handle of hProcesses was    *)
(*               created for                                               *)
(*   attempts    history: one record per iteration of the CreateProcess    *)
(*               loop of the pipeline being built: the stage index, the    *)
(*               handles put in si.hStdInput and si.hStdOutput, whether    *)
(*               CreateProcessA succeeded, and the inheritable handles     *)
(*               open in the shell at the call                             *)
(*   tracked_stage  history: the stage index of the process the background *)
(*               pipeline that just returned registered as its job, -1     *)
(*               when the last line was none or registered nothing         *)
(*   nproc       processes created so far (handle values are not reused)   *)
(*   pipes       the pipe handles open in the shell: <<k, "r">>, <<k, "w">>*)
(*   openFiles   redirection file handles open in the shell                *)
(*   invalid_close  history: the shell called CloseHandle on a handle      *)
(*               that was not open (closed before, or never opened)        *)
(*   out         what the last step of the shell printed                   *)
(*   failed_queries  history: the jobs whose GetExitCodeProcess call       *)
(*               failed in the poll the shell just made                    *)
(*   assigned    history: the job ids add_job assigned, in order           *)
(***************************************************************************)
VARIABLES pc, running, jobs, job_counter, commands, i,
          hReadPipes, hWritePipes, hProcesses, stages, attempts, pi, job_id, hProcess,
          procs, nproc, pipes, openFiles, invalid_close, out, failed_queries, assigned,
          tracked_stage, input, polled

vars == <<pc, running, jobs, job_counter, commands, i,
          hReadPipes, hWritePipes, hProcesses, stages, attempts, pi, job_id, hProcess,
          procs, nproc, pipes, openFiles, invalid_close, out, failed_queries, assigned,
          tracked_stage, input, polled>>

locals == <<commands, i, hReadPipes, hWritePipes, hProcesses, stages, attempts, pi, job_id, hProcess>>

Msg(m) == [msg |-> m, id |-> 0, pid |-> 0, text |-> ""]

Job(h, processId, command) ==
    [hProcess |-> h, processId |-> processId, command |-> command, completed |-> FALSE]

NoJobs == [k \in {} |-> Job(NULL, 0, "")]

RECURSIVE Ascending(_)
Ascending(S) ==
    IF S = {} THEN <<>>
    ELSE LET m == CHOOSE x \in S : \A y \in S : x <= y
         IN  <<m>> \o Ascending(S \ {m})

Range(s) == { s[k] : k \in DOMAIN s }

(***************************************************************************)
(* History: `polled` holds when the last thing the shell did, but for      *)
(* reading and parsing a line and executing a line of no stage, was to     *)
(* poll its jobs, and no process has exited since.                         *)
(***************************************************************************)

(***************************************************************************)
(* The Windows calls, as functions of the table of process objects.        *)
(***************************************************************************)
\* is h a handle the shell holds open
Valid(P, h) == h \in DOMAIN P

\* CreateProcessA succeeding: the table with the new process under handle h
CreateProcessA(P, h) ==
    [x \in DOMAIN P \cup {h} |->
        IF x = h THEN [running |-> TRUE, code |-> STILL_ACTIVE,
                       pid |-> 100 + h]
        ELSE P[x]]

\* the inheritable handles among the pipe ends S the shell holds: CreatePipe
\* is given SECURITY_ATTRIBUTES with bInheritHandle = TRUE for every pipe,
\* and CreateProcessA is called with bInheritHandles = TRUE, so a process
\* that is created holds a copy of each of them
Inheritable(S) == S

GetProcessId(P, h) == P[h].pid

\* the code GetExitCodeProcess stores when it succeeds
GetExitCodeProcess(P, h) == IF P[h].running THEN STILL_ACTIVE ELSE P[h].code

\* (a CloseHandle that releases nothing)
CloseHandle_leak(P, h) == P

\* CloseHandle(h): h is no longer a handle of the shell
CloseHandle(P, h) == [x \in DOMAIN P \ {h} |-> P[x]]

\* CloseHandle on each process handle of the sequence hs, in order
RECURSIVE CloseHandles(_, _)
CloseHandles(P, hs) ==
    IF hs = <<>> THEN P ELSE CloseHandles(CloseHandle(P, Head(hs)), Tail(hs))

\* does one of those CloseHandle calls get a handle that is not open
RECURSIVE ClosesInvalid(_, _)
ClosesInvalid(P, hs) ==
    IF hs = <<>> THEN FALSE
    ELSE \/ ~Valid(P, Head(hs))
         \/ ClosesInvalid(CloseHandle(P, Head(hs)), Tail(hs))

\* TerminateProcess(h, code) succeeding
TerminateProcess(P, h, code) ==
    [P EXCEPT ![h].running = FALSE, ![h].code = code]

\* (a wait that returns at once)
Signaled_nowait(P, h) == TRUE

\* (a wait that returns only for a process that exited with code 0)
Signaled_code0(P, h) == ~Valid(P, h) \/ (~P[h].running /\ P[h].code = 0)

\* WaitForSingleObject(h, INFINITE) returns: the process has exited (or h is no handle)
Signaled(P, h) == ~Valid(P, h) \/ ~P[h].running

\* (a wait that returns when any one handle is signaled, bWaitAll = FALSE)
AnySignaled(P, hs) == \E k \in DOMAIN hs : Signaled(P, hs[k])

\* WaitForMultipleObjects(n, hs, TRUE, INFINITE) returns
AllSignaled(P, hs) == \A k \in DOMAIN hs : Signaled(P, hs[k])

(***************************************************************************)
(* Job management.                                                         *)
(***************************************************************************)
\* jobs[job_counter++] = Job(...): the new registry
add_job(J, counter, h, processId, command) ==
    [k \in DOMAIN J \cup {counter} |->
        IF k = counter THEN Job(h, processId, command) ELSE J[k]]

\* (a counter that add_job does not advance)
next_counter_same(counter) == counter

\* ... and the new counter
next_counter(counter) == counter + 1

\* jobs.find(job_id): the key found, or NotFound for jobs.end()
NotFound == 0 - 1

\* (a lookup that falls back to the lowest key when id is absent)
find_job_nearest(J, id) ==
    IF id \in DOMAIN J THEN id
    ELSE IF DOMAIN J # {} THEN CHOOSE k \in DOMAIN J : \A j \in DOMAIN J : k <= j
    ELSE NotFound

find_job(J, id) == IF id \in DOMAIN J THEN id ELSE NotFound

\* (an erase that leaves the entry in the map)
remove_job_kept(J, id) == J

\* jobs.erase(job_id)
remove_job(J, id) == [k \in DOMAIN J \ {id} |-> J[k]]

RECURSIVE remove_jobs(_, _)
remove_jobs(J, ids) ==
    IF ids = <<>> THEN J ELSE remove_jobs(remove_job(J, Head(ids)), Tail(ids))

\* completed_jobs of check_background_jobs; failed = the jobs whose
\* GetExitCodeProcess call returns FALSE in this poll
completed_jobs(J, P, failed) ==
    Ascending({ id \in DOMAIN J :
                  /\ J[id].hProcess # NULL
                  /\ Valid(P, J[id].hProcess)
                  /\ id \notin failed
                  /\ GetExitCodeProcess(P, J[id].hProcess) # STILL_ACTIVE })

DoneNotices(J, done) ==
    [k \in DOMAIN done |->
        [msg |-> "Done", id |-> done[k], pid |-> 0, text |-> J[done[k]].command]]

JobHandles(J, ids) == [k \in DOMAIN ids |-> J[ids[k]].hProcess]

\* the listing printed by builtin_jobs
Listing(J) ==
    IF DOMAIN J = {} THEN << Msg("No background jobs") >>
    ELSE LET ids == Ascending({ id \in DOMAIN J : ~J[id].completed })
         IN  [k \in DOMAIN ids |->
                [msg |-> "job", id |-> ids[k], pid |-> J[ids[k]].processId,
                 text |-> J[ids[k]].command]]

\* the handles closed by builtin_exit and by ~WindowsShell
AllJobHandles(J) ==
    JobHandles(J, Ascending({ id \in DOMAIN J : J[id].hProcess # NULL }))

Init ==
    /\ pc = "loop"
    /\ running = TRUE
    /\ jobs = NoJobs
    /\ job_counter = 1
    /\ commands = <<>>
    /\ i = 0
    /\ hReadPipes = <<>>
    /\ hWritePipes = <<>>
    /\ hProcesses = <<>>
    /\ stages = <<>>
    /\ attempts = <<>>
    /\ pi = NULL
    /\ job_id = 0
    /\ hProcess = NULL
    /\ procs = [h \in {} |-> 0]
    /\ nproc = 0
    /\ pipes = {}
    /\ openFiles = 0
    /\ invalid_close = FALSE
    /\ out = <<>>
    /\ failed_queries = {}
    /\ assigned = <<>>
    /\ tracked_stage = 0 - 1
    /\ input = <<>>
    /\ polled = FALSE

\* execute_pipeline (or a builtin) returns to run(): its locals are gone
Return ==
    /\ pc' = "loop"
    /\ commands' = <<>>
    /\ i' = 0
    /\ hReadPipes' = <<>>
    /\ hWritePipes' = <<>>
    /\ hProcesses' = <<>>
    /\ stages' = <<>>
    /\ attempts' = <<>>
    /\ pi' = NULL
    /\ job_id' = 0
    /\ hProcess' = NULL

\* the effect of CloseHandle on each process handle of hs, from process table P
CloseIn(P, hs) ==
    /\ procs' = CloseHandles(P, hs)
    /\ invalid_close' = (invalid_close \/ ClosesInvalid(P, hs))

Close(hs) == CloseIn(procs, hs)

(***************************************************************************)
(* run(): the loop and the prompt.                                         *)
(***************************************************************************)
Builtins == {"cd", "exit", "jobs", "fg", "kill", "help", "cls", "clear"}

\* check_background_jobs() at the top of the loop, then display_prompt()
Poll ==
    /\ pc = "loop"
    /\ running
    /\ \E failed \in SUBSET (DOMAIN jobs) :
          LET done == completed_jobs(jobs, procs, failed)
          IN  /\ out' = DoneNotices(jobs, done)
              /\ Close(JobHandles(jobs, done))
              /\ jobs' = remove_jobs(jobs, done)
              /\ failed_queries' = failed
    /\ pc' = "prompt"
    /\ UNCHANGED <<running, job_counter, locals, nproc, pipes, openFiles, assigned, tracked_stage>>
    /\ UNCHANGED input
    /\ polled' = TRUE

\* getline returns a line: an empty one goes back to the top of the loop
\* (`continue`), any other is parsed and handed to execute_pipeline
ReadLineOf(L) ==
    /\ pc = "prompt"
    /\ \E line \in L :
          /\ input' = line
          /\ pc' = IF line = <<>> THEN "loop" ELSE "parse"
    /\ out' = <<>>
    /\ failed_queries' = {}
    /\ tracked_stage' = 0 - 1
    /\ UNCHANGED <<running, jobs, job_counter, locals, procs, nproc, pipes,
                   openFiles, invalid_close, assigned, polled>>

\* run() hands the line to parse_input and the stages to execute_pipeline;
\* the line is not used again
ParseLine ==
    /\ pc = "parse"
    /\ pc' = "exec"
    /\ commands' = parse_input(input)
    /\ input' = <<>>
    /\ UNCHANGED <<running, jobs, job_counter, i, hReadPipes, hWritePipes, hProcesses,
                   stages, attempts, pi, job_id, hProcess, procs, nproc, pipes,
                   openFiles, invalid_close, assigned, out, failed_queries,
                   tracked_stage, polled>>

ReadLine == ReadLineOf(Lines)

ReadLineFiles == ReadLineOf(FileLines)

ReadLineTokens == ReadLineOf(TokenLines)

ReadLineLive == ReadLineOf(LiveLines)

\* getline fails: run() breaks, main returns and ~WindowsShell closes the job handles
EndOfInput ==
    /\ pc = "prompt"
    /\ pc' = "exited"
    /\ out' = << Msg("exit") >>
    /\ Close(AllJobHandles(jobs))
    /\ UNCHANGED <<running, jobs, job_counter, locals, nproc, pipes,
                   openFiles, assigned, failed_queries, tracked_stage>>
    /\ UNCHANGED input
    /\ polled' = FALSE

(***************************************************************************)
(* execute_pipeline: no stage, or one stage (builtin or single command).   *)
(***************************************************************************)
ExecEmpty ==
    /\ pc = "exec"
    /\ commands = <<>>
    /\ Return
    /\ out' = <<>>
    /\ UNCHANGED <<running, jobs, job_counter, procs, nproc, pipes,
                   openFiles, invalid_close, assigned, failed_queries, tracked_stage>>
    /\ UNCHANGED <<input, polled>>

\* (a dispatch that looks at the first stage of any line)
Single_any(cmds, names) ==
    /\ Len(cmds) >= 1
    /\ cmds[1].args[1] \in names

\* `commands.size() == 1` and handle_builtin's test of args[0]
Single(cmds, names) ==
    /\ Len(cmds) = 1
    /\ cmds[1].args[1] \in names

\* cd and help change nothing the model holds
builtin_other ==
    /\ pc = "exec"
    /\ LET cmds == commands IN
          /\ Single(cmds, {"cd", "help"})
          /\ Return
          /\ out' = <<>>
          /\ UNCHANGED <<running, jobs, job_counter, procs, nproc, pipes,
                         openFiles, invalid_close, assigned, failed_queries, tracked_stage>>
    /\ UNCHANGED input
    /\ polled' = FALSE

\* what is recorded in `out` for the call system("cls")
SystemCls == << Msg("system: cls") >>

\* cls and clear: system("cls") has the C runtime start the command
\* interpreter on `cls` and wait for it; the shell holds no handle of it
builtin_cls ==
    /\ pc = "exec"
    /\ LET cmds == commands IN
          /\ Single(cmds, {"cls", "clear"})
          /\ Return
          /\ out' = SystemCls
          /\ UNCHANGED <<running, jobs, job_counter, procs, nproc, pipes,
                         openFiles, invalid_close, assigned, failed_queries, tracked_stage>>
    /\ UNCHANGED input
    /\ polled' = FALSE

builtin_exit ==
    /\ pc = "exec"
    /\ LET cmds == commands IN
          /\ Single(cmds, {"exit"})
          /\ LET args == cmds[1].args
             IN  IF Len(args) > 1 /\ ~stoi_ok(args[2])
                 THEN /\ out' = << Msg("exit: invalid argument") >>
                      /\ Return
                      /\ UNCHANGED <<running, procs, invalid_close>>
                 ELSE /\ Close(AllJobHandles(jobs))
                      /\ running' = FALSE
                      /\ pc' = "exited"
                      /\ out' = <<>>
                      /\ UNCHANGED locals
          /\ UNCHANGED <<jobs, job_counter, nproc, pipes, openFiles, assigned, failed_queries, tracked_stage>>
    /\ UNCHANGED input
    /\ polled' = FALSE

builtin_jobs ==
    /\ pc = "exec"
    /\ LET cmds == commands IN
          /\ Single(cmds, {"jobs"})
          /\ \E failed \in SUBSET (DOMAIN jobs) :
                LET done == completed_jobs(jobs, procs, failed)
                IN  /\ Close(JobHandles(jobs, done))
                    /\ jobs' = remove_jobs(jobs, done)
                    /\ out' = DoneNotices(jobs, done) \o Listing(remove_jobs(jobs, done))
                    /\ failed_queries' = failed
          /\ Return
          /\ UNCHANGED <<running, job_counter, nproc, pipes, openFiles, assigned, tracked_stage>>
    /\ UNCHANGED input
    /\ polled' = TRUE

\* fg up to the blocking WaitForSingleObject
builtin_fg ==
    /\ pc = "exec"
    /\ LET cmds == commands IN
          /\ Single(cmds, {"fg"})
          /\ LET args == cmds[1].args
             IN  IF Len(args) < 2
                 THEN out' = << Msg("fg: job id required") >> /\ Return
                 ELSE IF ~stoi_ok(args[2])
                 THEN out' = << Msg("fg: invalid job id") >> /\ Return
                 ELSE IF find_job(jobs, stoi(args[2])) = NotFound
                 THEN out' = << Msg("fg: job not found") >> /\ Return
                 ELSE /\ job_id' = stoi(args[2])
                      /\ hProcess' = jobs[find_job(jobs, stoi(args[2]))].hProcess
                      /\ out' = << [msg |-> "fg", id |-> stoi(args[2]), pid |-> 0,
                                    text |-> jobs[find_job(jobs, stoi(args[2]))].command] >>
                      /\ pc' = "fgwait"
                      /\ UNCHANGED <<commands, i, hReadPipes, hWritePipes, hProcesses,
                                     stages, attempts, pi>>
          /\ UNCHANGED <<running, jobs, job_counter, procs, nproc, pipes,
                         openFiles, invalid_close, assigned, failed_queries, tracked_stage>>
    /\ UNCHANGED input
    /\ polled' = FALSE

\* WaitForSingleObject(hProcess, INFINITE) returns; CloseHandle; remove_job
fg_wait ==
    /\ pc = "fgwait"
    /\ Signaled(procs, hProcess)
    /\ Close(<<hProcess>>)
    /\ jobs' = remove_job(jobs, job_id)
    /\ Return
    /\ out' = <<>>
    /\ UNCHANGED <<running, job_counter, nproc, pipes, openFiles, assigned, failed_queries, tracked_stage>>
    /\ UNCHANGED input
    /\ polled' = FALSE

\* TerminateProcess fails on a process that has exited, and may be refused otherwise
builtin_kill ==
    /\ pc = "exec"
    /\ LET cmds == commands IN
          /\ Single(cmds, {"kill"})
          /\ LET args == cmds[1].args
             IN  IF Len(args) < 2
                 THEN /\ out' = << Msg("kill: job id required") >>
                      /\ UNCHANGED <<jobs, procs, invalid_close>>
                 ELSE IF ~stoi_ok(args[2])
                 THEN /\ out' = << Msg("kill: invalid job id") >>
                      /\ UNCHANGED <<jobs, procs, invalid_close>>
                 ELSE IF find_job(jobs, stoi(args[2])) = NotFound
                 THEN /\ out' = << Msg("kill: job not found") >>
                      /\ UNCHANGED <<jobs, procs, invalid_close>>
                 ELSE \E terminated \in BOOLEAN :
                        LET id == stoi(args[2])
                            h  == jobs[find_job(jobs, id)].hProcess
                        IN  /\ terminated => (Valid(procs, h) /\ procs[h].running)
                            /\ IF terminated
                               THEN /\ out' = << [msg |-> "Terminated", id |-> id,
                                                  pid |-> 0, text |-> ""] >>
                                    /\ CloseIn(TerminateProcess(procs, h, KILL_EXIT_CODE),
                                               <<h>>)
                                    /\ jobs' = remove_job(jobs, id)
                               ELSE /\ out' = << Msg("kill: failed to terminate process") >>
                                    /\ UNCHANGED <<jobs, procs, invalid_close>>
          /\ Return
          /\ UNCHANGED <<running, job_counter, nproc, pipes, openFiles, assigned, failed_queries, tracked_stage>>
    /\ UNCHANGED input
    /\ polled' = FALSE

(***************************************************************************)
(* execute_command: one external command.  The redirection files are       *)
(* opened, and closed again, before the function waits or returns.         *)
(***************************************************************************)
Bit(b) == IF b THEN 1 ELSE 0

Started(id, pid) == [msg |-> "started", id |-> id, pid |-> pid, text |-> ""]

execute_command ==
    /\ pc = "exec"
    /\ LET cmds == commands IN
          /\ Len(cmds) = 1
          /\ cmds[1].args[1] \notin Builtins
          /\ \E in_ok, out_ok, success \in BOOLEAN :
                /\ success => nproc < MaxProcs
                /\ in_ok => openFiles < MaxFiles
                /\ out_ok => openFiles + Bit(cmds[1].input_file # "") < MaxFiles
                /\ LET cmd == cmds[1]
                       h   == nproc + 1
                       P   == CreateProcessA(procs, h)
                   IN  IF cmd.input_file # "" /\ ~in_ok
                       THEN /\ out' = << Msg("Error: Cannot open input file") >>
                            /\ Return
                            /\ UNCHANGED <<jobs, job_counter, procs, nproc, assigned>>
                       ELSE IF cmd.output_file # "" /\ ~out_ok
                       THEN /\ out' = << Msg("Error: Cannot open output file") >>
                            /\ Return
                            /\ UNCHANGED <<jobs, job_counter, procs, nproc, assigned>>
                       ELSE IF ~success
                       THEN /\ out' = << Msg("Error: Cannot execute command") >>
                            /\ Return
                            /\ UNCHANGED <<jobs, job_counter, procs, nproc, assigned>>
                       ELSE IF cmd.background
                       THEN /\ procs' = P
                            /\ nproc' = h
                            /\ jobs' = add_job(jobs, job_counter, h, GetProcessId(P, h),
                                               build_command_line(cmd.args))
                            /\ job_counter' = next_counter(job_counter)
                            /\ assigned' = Append(assigned, job_counter)
                            /\ out' = << Started(next_counter(job_counter) - 1,
                                                 GetProcessId(P, h)) >>
                            /\ Return
                       ELSE /\ procs' = P
                            /\ nproc' = h
                            /\ pi' = h
                            /\ pc' = "cmdwait"
                            /\ out' = <<>>
                            /\ UNCHANGED <<jobs, job_counter, assigned, commands, i,
                                           hReadPipes, hWritePipes, hProcesses,
                                           stages, attempts, job_id, hProcess>>
          /\ UNCHANGED <<running, pipes, openFiles, invalid_close, failed_queries, tracked_stage>>
    /\ UNCHANGED input
    /\ polled' = FALSE

\* WaitForSingleObject(pi.hProcess, INFINITE) returns; CloseHandle(pi.hProcess)
cmd_wait ==
    /\ pc = "cmdwait"
    /\ Signaled(procs, pi)
    /\ Close(<<pi>>)
    /\ Return
    /\ out' = <<>>
    /\ UNCHANGED <<running, jobs, job_counter, nproc, pipes, openFiles, assigned, failed_queries, tracked_stage>>
    /\ UNCHANGED input
    /\ polled' = FALSE

(***************************************************************************)
(* execute_pipeline: two or more stages.                                   *)
(***************************************************************************)
num_commands == Len(commands)

pipeline_begin ==
    /\ pc = "exec"
    /\ LET cmds == commands IN
          /\ Len(cmds) >= 2
          /\ commands' = commands
          /\ pc' = "pipes"
          /\ i' = 0
          /\ hReadPipes' = <<>>
          /\ hWritePipes' = <<>>
          /\ hProcesses' = <<>>
          /\ stages' = <<>>
          /\ attempts' = <<>>
          /\ out' = <<>>
          /\ UNCHANGED <<running, jobs, job_counter, pi, job_id, hProcess,
                         procs, nproc, pipes, openFiles, invalid_close, assigned, failed_queries, tracked_stage>>
    /\ UNCHANGED input
    /\ polled' = FALSE

\* the pipes the system can still create
free_pipes(S) == { k \in 1..MaxPipes : <<k, "r">> \notin S /\ <<k, "w">> \notin S }

\* CreatePipe succeeding: the new pipe, and its two handles
CreatePipe(S) == CHOOSE k \in free_pipes(S) : \A j \in free_pipes(S) : k <= j

hRead(k) == <<k, "r">>

hWrite(k) == <<k, "w">>

\* one iteration of the CreatePipe loop; a failure returns from execute_pipeline
create_pipe ==
    /\ pc = "pipes"
    /\ i < num_commands - 1
    /\ \E created \in BOOLEAN :
          /\ created => free_pipes(pipes) # {}
          /\ IF created
             THEN /\ pipes' = pipes \cup {hRead(CreatePipe(pipes)), hWrite(CreatePipe(pipes))}
                  /\ hReadPipes' = Append(hReadPipes, hRead(CreatePipe(pipes)))
                  /\ hWritePipes' = Append(hWritePipes, hWrite(CreatePipe(pipes)))
                  /\ IF i + 1 < num_commands - 1
                     THEN i' = i + 1 /\ pc' = "pipes"
                     ELSE i' = 0 /\ pc' = "launch"
                  /\ out' = <<>>
                  /\ UNCHANGED <<commands, hProcesses, stages, attempts, pi, job_id, hProcess>>
             ELSE /\ out' = << Msg("Error: Cannot create pipe") >>
                  /\ Return
                  /\ UNCHANGED pipes
    /\ UNCHANGED <<running, jobs, job_counter, procs, nproc, openFiles,
                   invalid_close, assigned, failed_queries, tracked_stage>>
    /\ UNCHANGED input
    /\ polled' = FALSE

\* the values a standard handle of a child can be given
PipeEnd(h) == [kind |-> "pipe", pipe |-> h[1], end |-> h[2], name |-> ""]

FileHandle(name) == [kind |-> "file", pipe |-> 0, end |-> "", name |-> name]

INVALID_HANDLE_VALUE == [kind |-> "invalid", pipe |-> 0, end |-> "", name |-> ""]

GetStdHandle(which) == [kind |-> "console", pipe |-> 0, end |-> "", name |-> which]

\* CreateFileA: the handle of the file, or INVALID_HANDLE_VALUE
CreateFileA(name, ok) == IF ok THEN FileHandle(name) ELSE INVALID_HANDLE_VALUE

\* (a wiring that honours the input file of any stage)
hStdInput_any_stage(cmds, k, rds, in_ok) ==
    IF cmds[k + 1].input_file # ""
    THEN CreateFileA(cmds[k + 1].input_file, in_ok)
    ELSE IF k = 0 THEN GetStdHandle("STD_INPUT_HANDLE") ELSE PipeEnd(rds[k])

\* si.hStdInput of stage k (0-based) of the pipeline cmds
hStdInput(cmds, k, rds, in_ok) ==
    IF k = 0
    THEN IF cmds[1].input_file # ""
         THEN CreateFileA(cmds[1].input_file, in_ok)
         ELSE GetStdHandle("STD_INPUT_HANDLE")
    ELSE PipeEnd(rds[k])

\* si.hStdOutput of stage k (0-based) of the pipeline cmds
hStdOutput(cmds, k, wrs, out_ok) ==
    IF k = Len(cmds) - 1
    THEN IF cmds[k + 1].output_file # ""
         THEN CreateFileA(cmds[k + 1].output_file, out_ok)
         ELSE GetStdHandle("STD_OUTPUT_HANDLE")
    ELSE PipeEnd(wrs[k + 1])

\* (a loop that keeps pi.hProcess of a failed launch too)
push_back_always(hs, h, success) == Append(hs, h)

\* hProcesses after the iteration: `if (!success) continue;` skips the push_back
push_back_launched(hs, h, success) == IF success THEN Append(hs, h) ELSE hs

\* (a loop left for the close loops after its first iteration)
after_launch_close(k, n) == "close"

\* where the CreateProcess loop goes after the iteration for stage k of n
after_launch(k, n) == IF k + 1 < n THEN "launch" ELSE "close"

\* one iteration of the CreateProcess loop: the stage's standard handles are
\* set up (a file that is opened is never closed, and a failed open is not
\* tested), then the process is created or the failure is reported
launch_stage ==
    /\ pc = "launch"
    /\ i < num_commands
    /\ \E in_ok, out_ok, success \in BOOLEAN :
          LET stdin  == hStdInput(commands, i, hReadPipes, in_ok)
              stdout == hStdOutput(commands, i, hWritePipes, out_ok)
              opened == Bit(stdin.kind = "file") + Bit(stdout.kind = "file")
          IN  /\ success => nproc < MaxProcs
              /\ opened > 0 => openFiles < MaxFiles
              /\ openFiles' = openFiles + opened
              /\ attempts' = Append(attempts, [stage |-> i, stdin |-> stdin,
                                               stdout |-> stdout, launched |-> success,
                                               inherited |-> Inheritable(pipes)])
              /\ IF success
                 THEN /\ procs' = CreateProcessA(procs, nproc + 1)
                      /\ nproc' = nproc + 1
                      /\ out' = <<>>
                 ELSE /\ out' = << Msg("Error: Cannot execute") >>
                      /\ UNCHANGED <<procs, nproc>>
              /\ hProcesses' = push_back_launched(hProcesses, nproc + 1, success)
              /\ stages' = push_back_launched(stages, i, success)
    /\ i' = i + 1
    /\ pc' = after_launch(i, num_commands)
    /\ UNCHANGED <<running, jobs, job_counter, commands, hReadPipes, hWritePipes,
                   pi, job_id, hProcess, pipes, invalid_close, assigned, failed_queries, tracked_stage>>
    /\ UNCHANGED input
    /\ polled' = FALSE

\* the pipe handles of the loops `for (auto h : hReadPipes) CloseHandle(h)` and
\* `for (auto h : hWritePipes) CloseHandle(h)`
closed_pipe_handles(rds, wrs) == rds \o wrs

close_pipes ==
    /\ pc = "close"
    /\ LET hs == closed_pipe_handles(hReadPipes, hWritePipes)
       IN  /\ pipes' = pipes \ Range(hs)
           /\ invalid_close' =
                 (\/ invalid_close
                  \/ \E k \in DOMAIN hs :
                        \/ hs[k] \notin pipes
                        \/ \E j \in DOMAIN hs : j < k /\ hs[j] = hs[k])
    /\ pc' = "decide"
    /\ out' = <<>>
    /\ UNCHANGED <<running, jobs, job_counter, locals, procs, nproc,
                   openFiles, assigned, failed_queries, tracked_stage>>
    /\ UNCHANGED input
    /\ polled' = FALSE

\* (a pipeline that is a background pipeline when any stage has the flag)
background_any == \E k \in DOMAIN commands : commands[k].background

\* bool background = commands.back().background
background == commands[Len(commands)].background

\* (registering the last launched process instead of the first)
last_handle(hs) == hs[Len(hs)]

\* the handle registered as the job, hProcesses[0]
job_handle(hs) == hs[1]

\* (closing none of the other handles)
no_other_handles(hs) == <<>>

\* the handles closed without waiting, hProcesses[1..]
other_handles(hs) == SubSeq(hs, 2, Len(hs))

pipeline_background ==
    /\ pc = "decide"
    /\ background
    /\ IF hProcesses # <<>>
       THEN LET h == job_handle(hProcesses)
            IN  /\ jobs' = add_job(jobs, job_counter, h, GetProcessId(procs, h),
                                   pipeline_text(commands))
                /\ job_counter' = next_counter(job_counter)
                /\ assigned' = Append(assigned, job_counter)
                /\ out' = << Started(next_counter(job_counter) - 1,
                                     GetProcessId(procs, h)) >>
                /\ tracked_stage' = stages[CHOOSE k \in DOMAIN hProcesses : hProcesses[k] = h]
       ELSE /\ out' = <<>>
            /\ UNCHANGED <<jobs, job_counter, assigned, tracked_stage>>
    /\ Close(other_handles(hProcesses))
    /\ Return
    /\ UNCHANGED <<running, nproc, pipes, openFiles, failed_queries>>
    /\ UNCHANGED input
    /\ polled' = FALSE

\* the synchronous pipeline: wait for all, then close all
pipeline_wait ==
    /\ pc = "decide"
    /\ ~background
    /\ hProcesses # <<>> => AllSignaled(procs, hProcesses)
    /\ Close(hProcesses)
    /\ Return
    /\ out' = <<>>
    /\ UNCHANGED <<running, jobs, job_counter, nproc, pipes, openFiles, assigned, failed_queries, tracked_stage>>
    /\ UNCHANGED input
    /\ polled' = FALSE

(***************************************************************************)
(* The environment: a child process exits on its own.                      *)
(***************************************************************************)
ExitOf(p) ==
    \E code \in ExitCodes :
        /\ procs[p].running
        /\ procs' = [procs EXCEPT ![p].running = FALSE, ![p].code = code]

ProcExit ==
    /\ pc # "exited"
    /\ \E p \in DOMAIN procs : ExitOf(p)
    /\ UNCHANGED <<pc, running, jobs, job_counter, locals, nproc, pipes,
                   openFiles, invalid_close, out, assigned, failed_queries, tracked_stage>>
    /\ UNCHANGED input
    /\ polled' = FALSE

Next ==
    \/ Poll
    \/ ReadLine
    \/ ParseLine
    \/ EndOfInput
    \/ ExecEmpty
    \/ builtin_other
    \/ builtin_cls
    \/ builtin_exit
    \/ builtin_jobs
    \/ builtin_fg
    \/ fg_wait
    \/ builtin_kill
    \/ execute_command
    \/ cmd_wait
    \/ pipeline_begin
    \/ create_pipe
    \/ launch_stage
    \/ close_pipes
    \/ pipeline_background
    \/ pipeline_wait
    \/ ProcExit

Spec == Init /\ [][Next]_vars

\* the handles the shell is blocked on: in WaitForSingleObject of
\* execute_command or builtin_fg, or in WaitForMultipleObjects
Waited ==
    IF pc = "cmdwait" THEN {pi}
    ELSE IF pc = "fgwait" THEN {hProcess}
    ELSE IF pc = "decide" /\ ~background THEN Range(hProcesses)
    ELSE {}

\* a process the shell is waiting on exits
WaitedExit ==
    /\ \E p \in Waited \cap DOMAIN procs : ExitOf(p)
    /\ UNCHANGED <<pc, running, jobs, job_counter, locals, nproc, pipes,
                   openFiles, invalid_close, out, assigned, failed_queries,
                   tracked_stage, input>>
    /\ polled' = FALSE

\* the steps the shell takes by itself once a line is read: it is a
\* sequential program that keeps running
ShellStep ==
    \/ Poll
    \/ ParseLine
    \/ ExecEmpty
    \/ builtin_other
    \/ builtin_cls
    \/ builtin_exit
    \/ builtin_jobs
    \/ builtin_fg
    \/ fg_wait
    \/ builtin_kill
    \/ execute_command
    \/ cmd_wait
    \/ pipeline_begin
    \/ create_pipe
    \/ launch_stage
    \/ close_pipes
    \/ pipeline_background
    \/ pipeline_wait

\* the sessions made of the lines of LiveLines
NextLive ==
    \/ Poll
    \/ ReadLineLive
    \/ ParseLine
    \/ ExecEmpty
    \/ builtin_exit
    \/ builtin_fg
    \/ fg_wait
    \/ builtin_kill
    \/ execute_command
    \/ cmd_wait
    \/ pipeline_begin
    \/ create_pipe
    \/ launch_stage
    \/ close_pipes
    \/ pipeline_background
    \/ pipeline_wait
    \/ ProcExit

\* the sessions in which the shell keeps running and every process it waits
\* on exits
SpecLive ==
    Init /\ [][NextLive]_vars /\ WF_vars(ShellStep) /\ WF_vars(WaitedExit)

\* the sessions in which every line of at most MaxTokens tokens is typed and
\* parsed, and a line of no stage is executed
NextParse ==
    \/ Poll
    \/ ReadLineTokens
    \/ ParseLine
    \/ ExecEmpty

SpecParse == Init /\ [][NextParse]_vars

\* the sessions made of lines with redirections only
NextFiles ==
    \/ Poll
    \/ ReadLineFiles
    \/ ParseLine
    \/ execute_command
    \/ cmd_wait
    \/ pipeline_begin
    \/ create_pipe
    \/ launch_stage
    \/ close_pipes
    \/ pipeline_background
    \/ pipeline_wait
    \/ ProcExit

SpecFiles == Init /\ [][NextFiles]_vars

(***************************************************************************)
(* Properties.  The predicates below name the steps the properties are     *)
(* about.                                                                   *)
(***************************************************************************)
\* the handle h is open and its process has exited
Exited(P, h) == h \in DOMAIN P /\ ~P[h].running

\* the ids registered by the step
NewJobs == DOMAIN jobs' \ DOMAIN jobs

\* the line being dispatched is one external command
ExternalLine ==
    /\ pc = "exec"
    /\ Len(commands) = 1
    /\ commands[1].args[1] \notin Builtins

\* the line being dispatched or executed is a pipeline of two or more stages
PipelineLine ==
    \/ pc = "exec" /\ Len(commands) >= 2
    \/ pc \in {"pipes", "launch", "close", "decide"}

\* the shell is executing a line that is not a background line
SyncLine ==
    \/ pc = "cmdwait"
    \/ ExternalLine /\ ~commands[1].background
    \/ PipelineLine /\ ~background

\* `name <id>` with a well-formed id is being dispatched
TypedId(name) ==
    /\ pc = "exec"
    /\ Single(commands, {name})
    /\ Len(commands[1].args) >= 2
    /\ stoi_ok(commands[1].args[2])

\* the step is one poll of the registry: check_background_jobs at the top of
\* the loop, or at the start of `jobs`
PollStep ==
    \/ pc = "loop" /\ pc' = "prompt"
    \/ pc = "exec" /\ Single(commands, {"jobs"}) /\ pc' = "loop"

\* the step is execute_pipeline returning from a pipeline of two or more stages
PipelineReturn == pc \in {"pipes", "launch", "close", "decide"} /\ pc' = "loop"

\* C1: the first job registered gets id 1, every later job gets an id greater
\* than every id assigned before it, no id is assigned twice, and every job in
\* the registry sits under an id that was assigned.
C1_JobIdsNeverReused ==
    /\ assigned # <<>> => assigned[1] = 1
    /\ \A j, k \in DOMAIN assigned : j < k => assigned[j] < assigned[k]
    /\ DOMAIN jobs \subseteq Range(assigned)
    /\ \A k \in DOMAIN assigned : assigned[k] < job_counter

\* two jobs were registered, the first has completed and been removed
C1_Witness ==
    /\ pc = "prompt"
    /\ assigned = <<1, 2>>
    /\ DOMAIN jobs = {2}

\* C2: when execute_pipeline returns from a pipeline of N >= 2 stages it has
\* allocated exactly N-1 pipes and the shell holds no end of any of them.
C2_PipesClosedAtReturn ==
    [][PipelineReturn =>
          /\ Len(hReadPipes) = num_commands - 1
          /\ Len(hWritePipes) = num_commands - 1
          /\ (Range(hReadPipes) \cup Range(hWritePipes)) \cap pipes' = {}]_vars

\* C3: a handle registered as a job is closed exactly once.  No CloseHandle
\* call of the shell gets a handle that is not open; while the shell runs,
\* every handle in the registry is open and no two jobs share one; a job
\* leaves the registry in the very step that closes its handle, and that step
\* is a poll, fg, kill or exit; when the shell has ended, every job handle is
\* closed.
C3_HandleReleasedOnce ==
    /\ [](~invalid_close)
    /\ [](pc # "exited" =>
             \A a \in DOMAIN jobs :
                /\ Valid(procs, jobs[a].hProcess)
                /\ \A b \in DOMAIN jobs : a # b => jobs[a].hProcess # jobs[b].hProcess)
    /\ [](pc = "exited" => \A a \in DOMAIN jobs : ~Valid(procs, jobs[a].hProcess))
    /\ [][\A a \in DOMAIN jobs :
             /\ a \notin DOMAIN jobs' => ~Valid(procs', jobs[a].hProcess)
             /\ ~Valid(procs', jobs[a].hProcess) =>
                   \/ PollStep
                   \/ pc = "fgwait" /\ a = job_id
                   \/ TypedId("kill") /\ a = stoi(commands[1].args[2])
                   \/ pc' = "exited"]_vars

\* the shell has ended with two jobs registered in the session: the first was
\* released earlier, the second by the exit
C3_Witness ==
    /\ pc = "exited"
    /\ Len(assigned) = 2
    /\ DOMAIN jobs = {2}
    /\ DOMAIN procs = {}

BackgroundReturn ==
    \/ pc = "decide" /\ background /\ pc' # pc
    \/ ExternalLine /\ commands[1].background /\ pc' # pc

\* the process handles the line holds when it returns, in launch order
Launched ==
    IF pc = "decide" THEN hProcesses
    ELSE IF nproc' = nproc THEN <<>> ELSE <<nproc'>>

\* C5 as stated: a background line returns without waiting and registers
\* exactly one job.
C5_RegistersExactlyOne ==
    [][BackgroundReturn => pc' = "loop" /\ Cardinality(NewJobs) = 1]_vars

\* C5, amended: a background line returns to the loop without waiting (the
\* return is enabled whatever the processes do, and no launched process need
\* have exited).  When it launched at least one process it registers exactly
\* one job, the first launched process under the next job id, and closes the
\* handle of every other launched process; when it launched none it registers
\* no job and leaves the counter alone.  The jobs already registered stay.
C5_BackgroundReturns ==
    /\ []((pc = "decide" /\ background) => ENABLED pipeline_background)
    /\ [][BackgroundReturn =>
             /\ pc' = "loop"
             /\ \A a \in DOMAIN jobs : a \in DOMAIN jobs' /\ jobs'[a] = jobs[a]
             /\ IF Launched = <<>>
                THEN jobs' = jobs /\ job_counter' = job_counter
                ELSE /\ NewJobs = {job_counter}
                     /\ job_counter' = job_counter + 1
                     /\ jobs'[job_counter].hProcess = Launched[1]
                     /\ jobs'[job_counter].processId = GetProcessId(procs', Launched[1])
                     /\ procs'[Launched[1]] = (IF pc = "decide" THEN procs[Launched[1]]
                                               ELSE procs'[Launched[1]])
                     /\ \A k \in 2..Len(Launched) : ~Valid(procs', Launched[k])
                     /\ DOMAIN procs' \ DOMAIN procs \subseteq {Launched[1]}]_vars

\* the background pipeline `a | b &` has returned and registered a job while
\* the registered process is still running
C5_Witness ==
    /\ pc = "loop"
    /\ \E a \in DOMAIN jobs :
          /\ jobs[a].command = "a | b"
          /\ out = << Started(a, jobs[a].processId) >>
          /\ procs[jobs[a].hProcess].running

\* the process registered by a background pipeline's return
Registered == jobs'[CHOOSE a \in NewJobs : TRUE].hProcess

\* C6 as stated: the process a multi-stage background pipeline registers is
\* the one launched for stage index 0, and the processes of the other stages
\* are released and not tracked.
C6_RegistersStageZero ==
    [][(pc = "decide" /\ background /\ pc' # pc /\ NewJobs # {}) =>
          \A k \in DOMAIN hProcesses :
             IF stages[k] = 0
             THEN hProcesses[k] = Registered
             ELSE hProcesses[k] # Registered /\ ~Valid(procs', hProcesses[k])]_vars

\* C6, amended: the process a multi-stage background pipeline registers is
\* the one launched for the lowest stage index among the stages that
\* launched (stage 0 when stage 0 launched); the processes of the other
\* launched stages are released and are not in the registry.
C6_RegistersFirstLaunched ==
    [][(pc = "decide" /\ background /\ pc' # pc /\ NewJobs # {}) =>
          /\ \E k \in DOMAIN hProcesses : hProcesses[k] = Registered
          /\ \A k \in DOMAIN hProcesses :
                IF \A j \in DOMAIN hProcesses : stages[k] <= stages[j]
                THEN hProcesses[k] = Registered /\ Valid(procs', hProcesses[k])
                ELSE /\ hProcesses[k] # Registered
                     /\ ~Valid(procs', hProcesses[k])
                     /\ \A a \in DOMAIN jobs' : jobs'[a].hProcess # hProcesses[k]]_vars

\* a background pipeline whose stage 0 failed to launch has registered the
\* process of its stage 1
C6_Witness ==
    /\ pc = "loop"
    /\ tracked_stage = 1
    /\ DOMAIN jobs # {}

\* C7: each poll removes every tracked job whose process is no longer running,
\* printing one completion notice for it and closing its handle, and leaves
\* every job whose process is running in the registry unchanged.
C7_PollRemovesExited ==
    [][PollStep =>
          \A a \in DOMAIN jobs :
             IF Exited(procs, jobs[a].hProcess)
             THEN /\ a \notin DOMAIN jobs'
                  /\ ~Valid(procs', jobs[a].hProcess)
                  /\ Cardinality({ k \in DOMAIN out' :
                                     out'[k].msg = "Done" /\ out'[k].id = a }) = 1
             ELSE a \in DOMAIN jobs' /\ jobs'[a] = jobs[a]]_vars

\* C8: a job whose exit-status query fails during a poll is removed from the
\* registry by that poll.
C8_FailedQueryRemoves ==
    [][PollStep => \A a \in failed_queries' : a \notin DOMAIN jobs']_vars

\* C9: `fg <id>` and `kill <id>` with an id that is no key of the registry
\* print job-not-found and return to the loop at once; the registry, the job
\* counter and the process handles are as before, and no handle was closed.
C9_UnknownIdNoEffect ==
    [][\A name \in {"fg", "kill"} :
          (/\ TypedId(name)
           /\ stoi(commands[1].args[2]) \notin DOMAIN jobs
           /\ pc' # pc) =>
             /\ out' = << Msg(name \o ": job not found") >>
             /\ pc' = "loop"
             /\ jobs' = jobs
             /\ job_counter' = job_counter
             /\ procs' = procs
             /\ invalid_close' = invalid_close]_vars

\* `fg` of an id that is not in the registry was refused while another job
\* is tracked
C9_Witness ==
    /\ pc = "loop"
    /\ out = << Msg("fg: job not found") >>
    /\ DOMAIN jobs # {}

\* C10: `kill <id>` on a tracked job either terminates the process, which
\* was running, prints Terminated, closes the job's handle and removes the
\* entry, leaving the other jobs as they were; or prints the failure, and
\* leaves the registry and every process handle as they were.
C10_KillTracked ==
    [][(/\ TypedId("kill")
        /\ stoi(commands[1].args[2]) \in DOMAIN jobs
        /\ pc' # pc) =>
          LET id == stoi(commands[1].args[2])
              h  == jobs[id].hProcess
          IN  /\ pc' = "loop"
              /\ job_counter' = job_counter
              /\ \/ /\ out' = << [msg |-> "Terminated", id |-> id, pid |-> 0,
                                  text |-> ""] >>
                    /\ procs[h].running
                    /\ ~Valid(procs', h)
                    /\ DOMAIN procs' = DOMAIN procs \ {h}
                    /\ DOMAIN jobs' = DOMAIN jobs \ {id}
                    /\ \A a \in DOMAIN jobs' : jobs'[a] = jobs[a]
                 \/ /\ out' = << Msg("kill: failed to terminate process") >>
                    /\ jobs' = jobs
                    /\ procs' = procs
              /\ invalid_close' = invalid_close]_vars

\* job 1 was killed and its entry removed while job 2 stays tracked
C10_Witness ==
    /\ pc = "loop"
    /\ out = << [msg |-> "Terminated", id |-> 1, pid |-> 0, text |-> ""] >>
    /\ DOMAIN jobs = {2}

\* `kill` of a tracked job failed: the entry and its handle are still there
C10_WitnessFailure ==
    /\ pc = "loop"
    /\ out = << Msg("kill: failed to terminate process") >>
    /\ \E a \in DOMAIN jobs : Valid(procs, jobs[a].hProcess)

\* C11: `fg <id>` on a tracked job takes the job's handle and blocks; it
\* does not return to the loop before the process has exited; the return
\* closes the handle and removes exactly that entry, every other entry being
\* as before; while it is blocked the registry does not change.
C11_FgBlocksUntilExit ==
    [][/\ (/\ TypedId("fg")
           /\ stoi(commands[1].args[2]) \in DOMAIN jobs
           /\ pc' # pc) =>
             /\ pc' = "fgwait"
             /\ job_id' = stoi(commands[1].args[2])
             /\ hProcess' = jobs[job_id'].hProcess
             /\ jobs' = jobs
             /\ procs' = procs
       /\ (pc = "fgwait" /\ pc' = pc) => jobs' = jobs /\ Valid(procs', hProcess)
       /\ (pc = "fgwait" /\ pc' # pc) =>
             /\ pc' = "loop"
             /\ Exited(procs, hProcess)
             /\ ~Valid(procs', hProcess)
             /\ DOMAIN procs' = DOMAIN procs \ {hProcess}
             /\ DOMAIN jobs' = DOMAIN jobs \ {job_id}
             /\ \A a \in DOMAIN jobs' : jobs'[a] = jobs[a]
             /\ job_counter' = job_counter
             /\ invalid_close' = invalid_close]_vars

\* `fg 1` is blocked on the running process of job 1 while job 2 is tracked too
C11_Witness ==
    /\ pc = "fgwait"
    /\ job_id = 1
    /\ DOMAIN jobs = {1, 2}
    /\ procs[hProcess].running
    /\ ~ENABLED fg_wait

\* the step is one iteration of the CreateProcess loop of a pipeline
LaunchStep == pc = "launch" /\ i' # i

\* the stage indices of the attempts that launched, in order
LaunchedStages(att) ==
    LET sel == SelectSeq(att, LAMBDA a : a.launched)
    IN  [k \in DOMAIN sel |-> sel[k].stage]

\* C12: an iteration of the launch loop whose CreateProcessA fails reports
\* the failure, adds no handle and creates no process, and the loop goes on
\* to the next stage all the same; once the loop is over every stage has
\* been attempted and the handles held are exactly those of the stages that
\* launched; a synchronous pipeline returns only when each of them has exited.
C12_LaunchFailureSkipsStage ==
    /\ [][LaunchStep =>
             /\ i' = i + 1
             /\ attempts'[Len(attempts')].stage = i
             /\ pc' = (IF i + 1 < num_commands THEN "launch" ELSE "close")
             /\ IF nproc' = nproc
                THEN /\ out' = << Msg("Error: Cannot execute") >>
                     /\ hProcesses' = hProcesses
                     /\ procs' = procs
                ELSE /\ hProcesses' = Append(hProcesses, nproc')
                     /\ Valid(procs', nproc')]_vars
    /\ []((pc \in {"close", "decide"}) =>
             /\ [k \in DOMAIN attempts |-> attempts[k].stage]
                   = [k \in 1..num_commands |-> k - 1]
             /\ stages = LaunchedStages(attempts)
             /\ Len(hProcesses) = Len(stages)
             /\ \A j, k \in DOMAIN hProcesses : j < k => hProcesses[j] < hProcesses[k])
    /\ [][(pc = "decide" /\ ~background /\ pc' # pc) =>
             \A k \in DOMAIN hProcesses : Exited(procs, hProcesses[k])]_vars

\* a synchronous two-stage pipeline whose stage 0 failed to launch is waiting
\* for the process of its stage 1
C12_Witness ==
    /\ pc = "decide"
    /\ ~background
    /\ Len(attempts) = 2
    /\ ~attempts[1].launched
    /\ attempts[2].launched
    /\ procs[hProcesses[1]].running

\* the messages that report a redirection file that cannot be opened
FileErrors ==
    { << Msg("Error: Cannot open input file") >>,
      << Msg("Error: Cannot open output file") >> }

\* C13: a stage whose input file or output file cannot be opened is reported
\* and no process is created for it, then the shell goes on: on the
\* single-command path the report returns to the loop with no process
\* created; in the launch loop of a pipeline a stage that was given
\* INVALID_HANDLE_VALUE by CreateFileA is reported and not launched.
C13_FileOpenErrorAborts ==
    [][/\ (ExternalLine /\ pc' # pc /\ out' \in FileErrors) =>
             /\ pc' = "loop"
             /\ nproc' = nproc
             /\ procs' = procs
             /\ openFiles' = openFiles
       /\ LaunchStep =>
             LET a == attempts'[Len(attempts')]
             IN  (a.stdin = INVALID_HANDLE_VALUE \/ a.stdout = INVALID_HANDLE_VALUE) =>
                    /\ ~a.launched
                    /\ nproc' = nproc
                    /\ out' \in FileErrors]_vars

\* the pipe handles execute_pipeline has created for the pipeline being built
CreatedPipeEnds == Range(hReadPipes) \cup Range(hWritePipes)

\* C14: the stages of a pipeline are attempted in increasing index order,
\* one per iteration; while stages remain to be attempted the shell holds
\* every pipe end it created; a pipe end is closed only by the step that
\* follows the attempt of the last stage, which closes them all, and no
\* launch is attempted after it.
C14_LaunchThenClose ==
    /\ []((pc \in {"launch", "close"}) =>
             /\ CreatedPipeEnds \subseteq pipes
             /\ Len(hReadPipes) = num_commands - 1
             /\ Len(attempts) = i
             /\ \A k \in DOMAIN attempts : attempts[k].stage = k - 1
             /\ pc = "close" <=> i = num_commands)
    /\ [][/\ LaunchStep =>
                /\ attempts' = Append(attempts, attempts'[Len(attempts')])
                /\ attempts'[Len(attempts')].stage = i
                /\ pipes' = pipes
          /\ pipes \ pipes' # {} =>
                /\ pc = "close"
                /\ pc' = "decide"
                /\ Len(attempts) = num_commands
                /\ CreatedPipeEnds \cap pipes' = {}
          /\ pc = "decide" => attempts' \in {attempts, <<>>} /\ nproc' = nproc]_vars

\* both stages of a pipeline were attempted and launched, then its pipe was
\* closed by the shell
C14_Witness ==
    /\ pc = "decide"
    /\ Len(attempts) = 2
    /\ attempts[1].launched /\ attempts[2].launched
    /\ hReadPipes # <<>>
    /\ CreatedPipeEnds \cap pipes = {}

\* the background flag the parser recorded on the last stage of the line
LastStageFlag == commands[Len(commands)].background

\* C15: a pipeline is executed in the background exactly when the flag of
\* its last stage is set.  With the flag set the return is enabled whatever
\* the processes do, and registers a job when a process was launched;
\* without it, also when an earlier stage carries the flag, the return waits
\* for every launched process and no step of the line registers a job.
C15_BackgroundIsLastStageFlag ==
    /\ [](pc = "decide" =>
             /\ ENABLED pipeline_background <=> LastStageFlag
             /\ ENABLED pipeline_wait <=>
                   (/\ ~LastStageFlag
                    /\ \A k \in DOMAIN hProcesses : Exited(procs, hProcesses[k])))
    /\ [][/\ (pc = "decide" /\ pc' # pc) =>
                IF LastStageFlag
                THEN hProcesses # <<>> => NewJobs = {job_counter}
                ELSE /\ jobs' = jobs
                     /\ \A k \in DOMAIN hProcesses : Exited(procs, hProcesses[k])
          /\ (PipelineLine /\ ~LastStageFlag) =>
                jobs' = jobs /\ job_counter' = job_counter]_vars

\* the pipeline `a & | b`, whose first stage carries the flag, is waiting for
\* a running process: neither return is enabled
C15_Witness ==
    /\ pc = "decide"
    /\ commands[1].background
    /\ ~LastStageFlag
    /\ \E k \in DOMAIN hProcesses : procs[hProcesses[k]].running
    /\ ~ENABLED pipeline_wait
    /\ ~ENABLED pipeline_background

\* C16: in the launch loop of a pipeline of N stages, stage i > 0 is given the
\* read end of pipe i-1 as stdin and stage i < N-1 the write end of pipe i as
\* stdout, whatever files the stage names; stage 0 is given its input file
\* (the result of CreateFileA) when it names one and the console otherwise,
\* stage N-1 likewise for its output file; no file is opened for any other
\* stage.  Pipe i is one pipe: stage i+1 reads what stage i writes.
C16_StageWiring ==
    /\ [][LaunchStep =>
             LET a == attempts'[Len(attempts')]
                 cmd == commands[i + 1]
             IN  /\ IF i > 0
                    THEN a.stdin = PipeEnd(hReadPipes[i]) /\ a.stdin.end = "r"
                    ELSE IF cmd.input_file # ""
                    THEN a.stdin \in {FileHandle(cmd.input_file), INVALID_HANDLE_VALUE}
                    ELSE a.stdin = GetStdHandle("STD_INPUT_HANDLE")
                 /\ IF i < num_commands - 1
                    THEN a.stdout = PipeEnd(hWritePipes[i + 1]) /\ a.stdout.end = "w"
                    ELSE IF cmd.output_file # ""
                    THEN a.stdout \in {FileHandle(cmd.output_file), INVALID_HANDLE_VALUE}
                    ELSE a.stdout = GetStdHandle("STD_OUTPUT_HANDLE")
                 /\ openFiles' - openFiles =
                       Bit(i = 0 /\ a.stdin.kind = "file")
                       + Bit(i = num_commands - 1 /\ a.stdout.kind = "file")]_vars
    /\ [](\A k \in DOMAIN attempts :
             k > 1 => /\ attempts[k].stdin.kind = "pipe"
                      /\ attempts[k - 1].stdout.kind = "pipe"
                      /\ attempts[k].stdin.pipe = attempts[k - 1].stdout.pipe)

\* the middle stage of `a | b < in > out | c` was launched with the read end
\* of pipe 0 as stdin and the write end of pipe 1 as stdout, and no file was
\* opened for it
C16_Witness ==
    /\ pc = "decide"
    /\ Len(commands) = 3
    /\ commands[2].input_file = "in"
    /\ commands[2].output_file = "out"
    /\ attempts[2].launched
    /\ attempts[2].stdin = PipeEnd(hReadPipes[1])
    /\ attempts[2].stdout = PipeEnd(hWritePipes[2])
    /\ attempts[1].stdout.pipe = attempts[2].stdin.pipe
    /\ openFiles = 0

\* a one-stage line whose first argument is a builtin name is being dispatched
BuiltinLine ==
    /\ pc = "exec"
    /\ Len(commands) = 1
    /\ commands[1].args[1] \in Builtins

\* a line of two or more stages, one of them named like a builtin, is being
\* dispatched or executed
BuiltinNamedPipeline ==
    /\ PipelineLine
    /\ \E k \in DOMAIN commands : commands[k].args[1] \in Builtins

\* the shell state a pipeline leaves alone but for the job it may register
PipelineKeepsState ==
    /\ running' = running
    /\ pc' \notin {"exited", "fgwait", "cmdwait"}
    /\ \A a \in DOMAIN jobs : a \in DOMAIN jobs' /\ jobs'[a] = jobs[a]
    /\ \A a \in NewJobs : pc = "decide" /\ a = job_counter
    /\ out' # SystemCls
    /\ failed_queries' = failed_queries

\* C17 as stated: a one-stage line named like a builtin runs the builtin and
\* launches no external process; in a pipeline a stage named like a builtin
\* goes to the process launcher and the builtin does not run.
C17_BuiltinLaunchesNothing ==
    [][/\ (BuiltinLine /\ pc' # pc) =>
             /\ nproc' = nproc
             /\ out' # SystemCls
             /\ pc' \in {"loop", "fgwait", "exited"}
       /\ BuiltinNamedPipeline => PipelineKeepsState
       /\ (pc = "exec" /\ Len(commands) >= 2 /\ pc' # pc) => pc' = "pipes"]_vars

\* C17, amended: a one-stage line named like a builtin runs the builtin and
\* is not handed to the process launcher: CreateProcessA is not called and
\* the shell gets no new process handle; the only external program run is
\* the `cls` that system() starts for cls and clear.  In a pipeline a stage
\* named like a builtin goes to the process launcher like any other stage
\* and the builtin does not run.
C17_BuiltinDispatch ==
    [][/\ (BuiltinLine /\ pc' # pc) =>
             /\ nproc' = nproc
             /\ DOMAIN procs' \subseteq DOMAIN procs
             /\ pc' \in {"loop", "fgwait", "exited"}
             /\ out' = SystemCls <=> commands[1].args[1] \in {"cls", "clear"}
       /\ BuiltinNamedPipeline => PipelineKeepsState
       /\ (pc = "exec" /\ Len(commands) >= 2 /\ pc' # pc) => pc' = "pipes"
       /\ (LaunchStep /\ commands[i + 1].args[1] \in Builtins) =>
             /\ attempts'[Len(attempts')].stage = i
             /\ attempts'[Len(attempts')].launched <=> nproc' = nproc + 1]_vars

\* the stage `cd` of the pipeline `cd | a` was launched as a process
C17_Witness ==
    /\ pc = "decide"
    /\ commands[1].args[1] = "cd"
    /\ attempts[1].launched
    /\ attempts[2].launched

\* `cls` ran the system's cls
C17_WitnessCls ==
    /\ pc = "loop"
    /\ out = SystemCls

(***************************************************************************)
(* The parser, by position in the line.  Position p of a line holds a word *)
(* when the token is no operator.  An input file is pending at p when a    *)
(* `<` before p has no word after it and before p; an output file is       *)
(* pending at p when a `>` or `>>` before p has, after it and before p,    *)
(* only words that were taken as input files.                              *)
(***************************************************************************)
IsWord(line, p) == line[p] \notin Operators

PendingIn(line, p) ==
    \E q \in 1..(p - 1) :
        /\ line[q] = "<"
        /\ \A r \in (q + 1)..(p - 1) : ~IsWord(line, r)

PendingOut(line, p) ==
    \E q \in 1..(p - 1) :
        /\ line[q] \in {">", ">>"}
        /\ \A r \in (q + 1)..(p - 1) : IsWord(line, r) => PendingIn(line, r)

TakenAsInput(line, p) == IsWord(line, p) /\ PendingIn(line, p)

TakenAsOutput(line, p) ==
    IsWord(line, p) /\ ~PendingIn(line, p) /\ PendingOut(line, p)

\* the argument tokens: the words that are not taken as a file name
IsArg(line, p) ==
    IsWord(line, p) /\ ~PendingIn(line, p) /\ ~PendingOut(line, p)

\* the `|`-delimited segment of position p, counted from 1
Segment(line, p) == 1 + Cardinality({ q \in 1..(p - 1) : line[q] = "|" })

\* the segments that contain at least one argument token, in order
ArgSegments(line) ==
    Ascending({ Segment(line, p) : p \in { q \in DOMAIN line : IsArg(line, q) } })

\* the tokens of the line at the positions of P, in order
TokensAt(line, P) == [ k \in 1..Cardinality(P) |-> line[Ascending(P)[k]] ]

\* the argument tokens of segment g
SegmentArgs(line, g) ==
    TokensAt(line, { p \in DOMAIN line : IsArg(line, p) /\ Segment(line, p) = g })

\* the stage being accumulated when the token at position p is read: a `|`
\* starts a new stage only when the stage before it has an argument
StageAt(line, p) ==
    1 + Cardinality({ k \in DOMAIN ArgSegments(line) :
                        ArgSegments(line)[k] < Segment(line, p) })

Last(P) == CHOOSE x \in P : \A y \in P : y <= x

\* the positions of stage k that satisfy Rule
PositionsOf(line, k, Rule(_, _)) ==
    { p \in DOMAIN line : Rule(line, p) /\ StageAt(line, p) = k }

\* the file name a stage ends with, given the positions taken as its file
FileAt(line, P) == IF P = {} THEN "" ELSE line[Last(P)]

IsRedirectOut(line, p) == line[p] \in {">", ">>"}

\* a word that immediately follows `<`, and one that immediately follows
\* `>` or `>>`
FollowsIn(line, p) == IsWord(line, p) /\ p > 1 /\ line[p - 1] = "<"

FollowsOut(line, p) == IsWord(line, p) /\ p > 1 /\ IsRedirectOut(line, p - 1)

FollowsNone(line, p) ==
    IsWord(line, p) /\ ~FollowsIn(line, p) /\ ~FollowsOut(line, p)

\* the step of run() that parses the line
ParseStep == pc = "parse" /\ pc' = "exec"

\* C18: parse returns, in order, one stage for each `|`-delimited segment
\* that contains at least one argument token, holding the segment's argument
\* tokens, and never a stage with empty arguments; a `|` with no argument
\* before it is ignored; a line with no argument token (empty or operators
\* only) yields zero stages and nothing is launched for it; `a | b | c`
\* yields three plain stages of one argument each.
C18_StagePerSegment ==
    [][/\ ParseStep =>
             /\ Len(commands') = Len(ArgSegments(input))
             /\ \A k \in DOMAIN commands' :
                   /\ commands'[k].args # <<>>
                   /\ commands'[k].args = SegmentArgs(input, ArgSegments(input)[k])
             /\ (\A p \in DOMAIN input : input[p] \in Operators) => commands' = <<>>
             /\ (Len(input) >= 2 /\ input[1] = "|") =>
                   commands' = parse_input(Tail(input))
             /\ input = <<"a", "|", "b", "|", "c">> =>
                   commands' = << [Command EXCEPT !.args = <<"a">>],
                                  [Command EXCEPT !.args = <<"b">>],
                                  [Command EXCEPT !.args = <<"c">>] >>
       /\ (pc = "prompt" /\ input' = <<>>) => (pc' = "loop" /\ nproc' = nproc)
       /\ (pc = "exec" /\ commands = <<>>) =>
             (pc' = "loop" /\ nproc' = nproc /\ procs' = procs /\ pipes' = pipes)]_vars

\* `a | b | c` was parsed into its three stages
C18_Witness ==
    /\ pc = "exec"
    /\ Len(commands) = 3
    /\ commands[3].args = <<"c">>

\* an operators-only line was parsed into no stage
C18_WitnessNoStage ==
    /\ pc = "exec"
    /\ commands = <<>>

\* C19 as stated: the word that immediately follows `<` is the input file
\* of the current stage, the word that immediately follows `>` or `>>` is its
\* output file, appended to after `>>` only; these words are not arguments,
\* every other word is, and an operator without a following word assigns no
\* file.
C19_NextTokenConsumed ==
    [][ParseStep =>
          \A k \in DOMAIN commands' :
              LET InP  == PositionsOf(input, k, FollowsIn)
                  OutP == PositionsOf(input, k, FollowsOut)
              IN  /\ commands'[k].input_file = FileAt(input, InP)
                  /\ commands'[k].output_file = FileAt(input, OutP)
                  /\ OutP # {} =>
                        (commands'[k].append_output <=> input[Last(OutP) - 1] = ">>")
                  /\ commands'[k].args =
                        TokensAt(input, PositionsOf(input, k, FollowsNone))]_vars

\* C19, amended: `<` leaves an input file pending and `>` or `>>` leaves an
\* output file pending; the next word, whatever operators come between, is
\* taken as the input file when one is pending and otherwise as the output
\* file, by the stage that is current when the word is read; a word so taken
\* is not an argument; append_mode is that of the last `>` or `>>` read while
\* the stage was current; a pending file with no later word assigns nothing.
C19_NextWordConsumed ==
    [][ParseStep =>
          \A k \in DOMAIN commands' :
              LET InP  == PositionsOf(input, k, TakenAsInput)
                  OutP == PositionsOf(input, k, TakenAsOutput)
                  Ops  == PositionsOf(input, k, IsRedirectOut)
              IN  /\ commands'[k].input_file = FileAt(input, InP)
                  /\ commands'[k].output_file = FileAt(input, OutP)
                  /\ commands'[k].append_output <=>
                        (Ops # {} /\ input[Last(Ops)] = ">>")
                  /\ commands'[k].args =
                        TokensAt(input, PositionsOf(input, k, IsArg))
                  /\ \A p \in InP \cup OutP :
                        \E q \in 1..(p - 1) :
                            /\ input[q] \in {"<", ">", ">>"}
                            /\ \A r \in (q + 1)..(p - 1) :
                                  IsWord(input, r) => r \in InP \cup OutP]_vars

\* `a < & b` was parsed: `b`, which does not follow `<` immediately, is the
\* input file of stage `a`
C19_Witness ==
    /\ pc = "exec"
    /\ commands = << [Command EXCEPT !.args = <<"a">>, !.input_file = "b",
                                     !.background = TRUE] >>

\* the ids reported done by a step
DoneIds == { out'[k].id : k \in { n \in DOMAIN out' : out'[n].msg = "Done" } }

\* C20: a poll that follows a poll, with no tracked process changing state
\* in between, reports no completion and leaves the registry unchanged; a
\* job that is reported done is reported once and is no longer tracked.
C20_SecondPollReportsNothing ==
    [][PollStep =>
          /\ polled => (DoneIds = {} /\ jobs' = jobs)
          /\ \A a \in DoneIds :
                /\ a \in DOMAIN jobs
                /\ a \notin DOMAIN jobs'
                /\ Cardinality({ k \in DOMAIN out' :
                                   out'[k].msg = "Done" /\ out'[k].id = a }) = 1]_vars

\* a second poll in a row is about to run while a job is tracked
C20_Witness ==
    /\ pc = "loop"
    /\ polled
    /\ jobs # NoJobs

\* the line is `exit` with no argument or with an integer argument
ValidExit(cmds) ==
    /\ Len(cmds) = 1
    /\ cmds[1].args[1] = "exit"
    /\ (Len(cmds[1].args) > 1 => stoi_ok(cmds[1].args[2]))

ErrorTexts ==
    {"Error: Cannot open input file", "Error: Cannot open output file",
     "Error: Cannot execute command", "Error: Cannot execute",
     "Error: Cannot create pipe", "exit: invalid argument",
     "fg: job id required", "fg: invalid job id", "fg: job not found",
     "kill: job id required", "kill: invalid job id", "kill: job not found",
     "kill: failed to terminate process"}

\* a step of the shell reports a failure
ReportsError ==
    /\ pc' # pc \/ i' # i
    /\ \E k \in DOMAIN out' : out'[k].msg \in ErrorTexts

\* C21: every line that is submitted, but a valid `exit`, leads to the next
\* prompt when the processes the shell waits on exit; a step that reports a
\* failure is not repeated: the shell returns to its loop, or goes on to the
\* next stage of the pipeline, and it is never stopped by it.
C21_ReturnsToPrompt ==
    /\ (pc = "parse" /\ ~ValidExit(parse_input(input))) ~> (pc = "prompt")
    /\ [][ReportsError =>
             /\ \/ pc' = "loop"
                \/ pc = "launch" /\ i' = i + 1 /\ pc' \in {"launch", "close"}
             /\ running' = running]_vars

\* the shell is back in its loop after a launch failure
C21_Witness ==
    /\ pc = "loop"
    /\ running
    /\ out = << Msg("Error: Cannot execute command") >>

\* the process handle of stage k (0-based) of the pipeline, if it was launched
StageProcess(k) == { hProcesses[n] : n \in { m \in DOMAIN stages : stages[m] = k } }

\* the running processes of the pipeline that hold the pipe end e
Holders(P, e) ==
    { p \in DOMAIN P :
        /\ P[p].running
        /\ \E k \in 0..(Len(attempts) - 1) :
              p \in StageProcess(k) /\ e \in attempts[k + 1].inherited }

\* C22: once the shell has closed its pipe ends, the write end of pipe k is
\* held by the process of stage k only, so that the reader, stage k+1, is at
\* end of input as soon as stage k has exited.
C22_WriteEndHeldByWriter ==
    pc = "decide" =>
       \A k \in 0..(Len(hWritePipes) - 1) :
          /\ Holders(procs, hWritePipes[k + 1]) \subseteq StageProcess(k)
          /\ (\A p \in StageProcess(k) : ~procs[p].running) =>
                Holders(procs, hWritePipes[k + 1]) = {}

\* C23: whenever the shell is back in its loop or at the prompt it holds no
\* redirection file handle: every file that was opened for a stage of the
\* line has been closed, so the number of open file handles does not grow
\* with the lines executed.
C23_FilesClosedAtPrompt ==
    pc \in {"loop", "prompt"} => openFiles = 0

\* execute_pipeline returns from its CreatePipe loop: the allocation of pipe
\* number Len(hReadPipes) has failed
CreatePipeFails == pc = "pipes" /\ pc' = "loop"

\* C24: when the allocation of a pipe fails, no stage is launched, no job is
\* registered, the job counter is unchanged, and both ends of every pipe
\* allocated before it are closed in the shell when execute_pipeline returns.
C24_PipeFailureReleasesPipes ==
    [][CreatePipeFails =>
          /\ nproc' = nproc
          /\ procs' = procs
          /\ attempts = <<>>
          /\ jobs' = jobs
          /\ job_counter' = job_counter
          /\ (Range(hReadPipes) \cup Range(hWritePipes)) \cap pipes' = {}]_vars

====
